---- MODULE Spec2Model ----
(***************************************************************************)
(* A model of go-msgio (src/msgio.go): the length-prefixed framing writer  *)
(* and reader over one byte stream, with the reader's buffer pool.         *)
(*                                                                         *)
(* Scaling.  A byte of the code has 256 values and the length field is     *)
(* lengthSize = 4 bytes, so uint32 is arithmetic modulo 256^4.  The model  *)
(* keeps lengthSize = 4 and scales the byte down to ByteBase values: the   *)
(* length field is 4 digits in radix ByteBase, big-endian, and uint32 is   *)
(* arithmetic modulo ByteBase^4 (U32Mod).  int is taken to be 64 bits      *)
(* wide, so int(uint32) at line 133 loses nothing.                         *)
(*                                                                         *)
(* The stream (io.Reader / io.Writer) is an external collaborator; it is   *)
(* modelled as an in-memory byte buffer: a write appends, a read consumes  *)
(* from the front, and a read finding too few bytes ends with io.EOF or    *)
(* io.ErrUnexpectedEOF as io.ReadFull defines.  A stream write may fail    *)
(* after accepting only some of its bytes.                                 *)
(*                                                                         *)
(* The pool (package multipool) is not part of src/; it is modelled from   *)
(* section 4.3 of the specification.                                       *)
(***************************************************************************)
EXTENDS Integers, Sequences, FiniteSets, TLC

\* ---------------------------------------------------------------- bounds

\* Number of values of a byte (256 in the code).
ByteBase == 2

\* multipool.MaxLength: the capacity of the largest managed size class.
MaxLength == 4

\* WriteMsg calls in one run.
MaxMsgs == 2

\* Close calls in one run.
MaxCloses == 2

\* ------------------------------------------------------------- constants

lengthSize == 4

Byte == 0 .. (ByteBase - 1)

\* The modulus of uint32: every value of the 4-byte length field.
U32Mod == ByteBase ^ lengthSize

U32Max == U32Mod - 1

\* Read / ReadMsg calls in one run: one more than the messages written, so
\* that a reader can run past the last frame.
MaxReads == MaxMsgs + 1

\* ---------------------------------------------------------------- inputs

\* The payload of length L whose i-th byte is (s + i) mod ByteBase.
Pattern(L, s) == [i \in 1 .. L |-> (s + i) % ByteBase]

\* Payloads: empty, one byte, as long as the largest size class (two of
\* each), one byte longer than the largest size class, and one byte longer
\* than the largest uint32.
Payloads ==
    {Pattern(L, s) : L \in {1, MaxLength}, s \in {0, 1}}
        \cup {Pattern(L, 0) : L \in {0, MaxLength + 1, U32Max + 1}}

\* A caller's destination buffer for Read, filled with the top byte value.
DstLens == {0, 1, MaxLength + 1}

Dst(n) == [i \in 1 .. n |-> ByteBase - 1]

\* What one stream write may do with a buffer of n bytes: accept all of it,
\* or fail having accepted k < n bytes (none, or all but one).  A stream that
\* has failed (b) fails every later write and accepts nothing.
WriteOutcomes(b, n) ==
    IF b THEN {[n |-> 0, err |-> "ErrIO"]}
    ELSE {[n |-> n, err |-> "nil"]}
            \cup {[n |-> k, err |-> "ErrIO"] : k \in {0, n - 1} \cap (0 .. n)}

\* ------------------------------------------------------ encoding/binary

\* uint32(x): truncation to the width of the length field.
Uint32(x) == x % U32Mod

\* PutUint32 with the digits in little-endian order.
PutUint32LittleEndian(v) ==
    [i \in 1 .. lengthSize |-> (v \div (ByteBase ^ (i - 1))) % ByteBase]

\* NBO.PutUint32 (inside binary.Write): most significant digit first.
PutUint32(v) ==
    [i \in 1 .. lengthSize |-> (v \div (ByteBase ^ (lengthSize - i))) % ByteBase]

RECURSIVE BigEndianValue(_)
BigEndianValue(b) ==
    IF b = <<>> THEN 0
    ELSE BigEndianValue(SubSeq(b, 1, Len(b) - 1)) * ByteBase + b[Len(b)]

\* NBO.Uint32(s.lbuf)
GetUint32(b) == BigEndianValue(b)

\* ----------------------------------------------------------- the stream

Take(s, n) == SubSeq(s, 1, n)

Drop(s, n) == SubSeq(s, n + 1, Len(s))

Min2(a, b) == IF a < b THEN a ELSE b

\* io.ReadFull(r, buf) with len(buf) = n on a stream holding w: the bytes
\* read, what stays on the stream, and the error.
ReadFull(w, n) ==
    LET got == Min2(n, Len(w)) IN
    [data |-> Take(w, got),
     rest |-> Drop(w, got),
     err  |-> IF got = n THEN "nil"
              ELSE IF got = 0 THEN "EOF" ELSE "ErrUnexpectedEOF"]

\* s.W.Write(p) with outcome o: the stream after the call.
StreamWrite(w, p, o) == w \o Take(p, o.n)

\* ------------------------------------------------------------- the pool

IsPow2(c) == \E k \in 0 .. c : 2 ^ k = c

\* The doubling ladder of managed capacities, ending at MaxLength.
SizeClasses == {c \in 1 .. MaxLength : IsPow2(c)} \cup {MaxLength}

\* The class Get serves a request of minSize from.
GetClass(minSize) ==
    IF minSize > MaxLength THEN MaxLength
    ELSE CHOOSE c \in SizeClasses :
            c >= minSize /\ \A d \in SizeClasses : d >= minSize => c <= d

\* The class Put stores a buffer of the given (clamped) capacity under:
\* the largest class the capacity covers, the smallest class below that.
PutClass(c) ==
    IF \A d \in SizeClasses : d > c
    THEN CHOOSE k \in SizeClasses : \A d \in SizeClasses : k <= d
    ELSE CHOOSE k \in SizeClasses :
            k <= c /\ \A d \in SizeClasses : d <= c => d <= k

Zeroes(n) == [i \in 1 .. n |-> 0]

VARIABLES
    wire,       \* the bytes on the stream the reader has not consumed
    broken,     \* a write on the stream has failed
    next,       \* reader.next: the pending length, or -1
    pool,       \* the pool's free-lists: size class -> stack of buffers
    held,       \* the buffers ReadMsg handed out that were not released
    nalloc,     \* buffers the pool has allocated so far
    crashed,    \* a reader call has panicked
    ret,        \* what the most recent call did and returned
    written,    \* the payloads of the WriteMsg calls that returned nil
    delivered,  \* the messages of the reader calls that returned nil
    fit,        \* every Read so far got a destination as long as its frame,
                \* and every ReadMsg a buffer from the pool
    nw,         \* WriteMsg calls so far
    nr,         \* Read and ReadMsg calls so far
    cls,        \* the stream's closer capability, the Close calls made on
                \* the writer and the reader, and what the last Close returned
    rdrs,       \* the Readers that share the pool, each with its own stream
    lbuf,       \* reader.lbuf: the bytes of the last prefix read
    rcall,      \* the calls in progress on the one Reader, per caller
    wcall       \* the calls in progress on the one Writer, per caller

vars == <<wire, broken, next, pool, held, nalloc, crashed, ret,
          written, delivered, fit, nw, nr, cls, rdrs, lbuf, rcall, wcall>>

\* What the framing operations leave alone when each runs as one step.
others == <<cls, rdrs, lbuf, rcall, wcall>>

NoRet ==
    [op |-> "none", err |-> "nil", n |-> 0, msg |-> <<>>, dst0 |-> <<>>,
     dst |-> <<>>, pending |-> -1, had |-> -1, calls |-> <<>>, cap |-> 0]

\* No Close call made yet, on a stream that is an io.Closer or is not.
NoClose(closer) ==
    [closer |-> closer, n |-> 0, log |-> <<>>,
     ret |-> [op |-> "none", err |-> "nil", errs |-> <<>>]]

\* NewReader / NewReaderWithPool (next = -1) and NewWriter over one stream.
FramingInit ==
    /\ wire = <<>>
    /\ broken = FALSE
    /\ next = -1
    /\ pool = [c \in SizeClasses |-> <<>>]
    /\ held = {}
    /\ nalloc = 0
    /\ crashed = FALSE
    /\ ret = NoRet
    /\ written = <<>>
    /\ delivered = <<>>
    /\ fit = TRUE
    /\ nw = 0
    /\ nr = 0

\* No caller with a call in progress.
NoCalls == [th |-> <<>>, overlapped |-> FALSE]

\* No Reader besides the one of the framing state, and no call in progress.
Sequential ==
    /\ rdrs = <<>>
    /\ lbuf = Zeroes(lengthSize)
    /\ rcall = NoCalls
    /\ wcall = NoCalls

Init ==
    /\ FramingInit
    /\ cls = NoClose(TRUE)
    /\ Sequential

\* ----------------------------------------------------------- the writer

\* WriteMsg going on to the payload write after a failed length write.
WriteMsgResultIgnoreLenErr(w, msg, o1, o2) ==
    LET w1 == StreamWrite(w, PutUint32(Uint32(Len(msg))), o1) IN
    [wire |-> StreamWrite(w1, msg, o2), calls |-> <<o1, o2>>,
     err |-> IF o1.err # "nil" THEN o1.err ELSE o2.err]

\* WriteMsg writing the payload a second time when its write failed.
WriteMsgResultRetry(w, msg, o1, o2) ==
    LET w1 == StreamWrite(w, PutUint32(Uint32(Len(msg))), o1) IN
    IF o1.err # "nil"
    THEN [wire |-> w1, calls |-> <<o1>>, err |-> o1.err]
    ELSE IF o2.err # "nil"
    THEN [wire |-> StreamWrite(w1, msg, o2) \o msg,
          calls |-> <<o1, o2, [n |-> Len(msg), err |-> "nil"]>>,
          err |-> "nil"]
    ELSE [wire |-> StreamWrite(w1, msg, o2), calls |-> <<o1, o2>>,
          err |-> "nil"]

\* writer.WriteMsg(msg), the stream answering the length write with o1 and
\* the payload write (if it is made) with o2: the stream after the call, the
\* stream writes made, and the error returned.
WriteMsgResult(w, msg, o1, o2) ==
    LET length == Uint32(Len(msg))
        w1     == StreamWrite(w, PutUint32(length), o1)
    IN  IF o1.err # "nil"
        THEN [wire |-> w1, calls |-> <<o1>>, err |-> o1.err]
        ELSE [wire |-> StreamWrite(w1, msg, o2), calls |-> <<o1, o2>>,
              err |-> o2.err]

WriteMsg(msg, o1, o2) ==
    /\ nw < MaxMsgs
    /\ \E r \in {WriteMsgResult(wire, msg, o1, o2)} :
        /\ wire' = r.wire
        /\ broken' = (r.err # "nil")
        /\ ret' = [NoRet EXCEPT !.op = "WriteMsg", !.err = r.err,
                                !.msg = msg, !.calls = r.calls]
        /\ written' = IF r.err = "nil" THEN Append(written, msg) ELSE written
    /\ nw' = nw + 1
    /\ UNCHANGED <<next, pool, held, nalloc, crashed, delivered,
                   fit, nr>>
    /\ UNCHANGED others

\* ----------------------------------------------------------- the reader

\* nextMsgLen decoding a prefix cut short as if its missing bytes were 0.
nextMsgLenZeroPad(nx, w) ==
    IF nx = -1
    THEN LET r == ReadFull(w, lengthSize)
             b == r.data \o [i \in 1 .. lengthSize - Len(r.data) |-> 0]
         IN  IF r.err = "EOF"
             THEN [length |-> 0, err |-> r.err, next |-> nx, wire |-> r.rest]
             ELSE [length |-> GetUint32(b), err |-> "nil",
                   next |-> GetUint32(b), wire |-> r.rest]
    ELSE [length |-> nx, err |-> "nil", next |-> nx, wire |-> w]

\* reader.nextMsgLen with s.next = nx on a stream holding w.
nextMsgLen(nx, w) ==
    IF nx = -1
    THEN LET r == ReadFull(w, lengthSize) IN
         IF r.err # "nil"
         THEN [length |-> 0, err |-> r.err, next |-> nx, wire |-> r.rest]
         ELSE [length |-> GetUint32(r.data), err |-> "nil",
               next |-> GetUint32(r.data), wire |-> r.rest]
    ELSE [length |-> nx, err |-> "nil", next |-> nx, wire |-> w]

\* Read copying what fits into a destination that is too short.
ReadResultNoCheck(l, dst) ==
    IF l.err # "nil"
    THEN [next |-> l.next, wire |-> l.wire, dst |-> dst, n |-> 0,
          err |-> l.err, pending |-> -1]
    ELSE LET r == ReadFull(l.wire, Min2(l.length, Len(dst))) IN
         [next |-> IF l.length > Len(dst) THEN l.next ELSE -1,
          wire |-> r.rest,
          dst |-> r.data \o Drop(dst, Len(r.data)),
          n |-> IF l.length > Len(dst) THEN 0 ELSE l.length,
          err |-> IF l.length > Len(dst) THEN "ErrShortBuffer" ELSE r.err,
          pending |-> l.length]

\* Read forgetting the pending length when the destination is too short.
ReadResultDestructive(l, dst) ==
    IF l.err # "nil"
    THEN [next |-> l.next, wire |-> l.wire, dst |-> dst, n |-> 0,
          err |-> l.err, pending |-> -1]
    ELSE IF l.length > Len(dst)
    THEN [next |-> -1, wire |-> l.wire, dst |-> dst, n |-> 0,
          err |-> "ErrShortBuffer", pending |-> l.length]
    ELSE LET r == ReadFull(l.wire, l.length) IN
         [next |-> -1, wire |-> r.rest,
          dst |-> r.data \o Drop(dst, Len(r.data)), n |-> l.length,
          err |-> r.err, pending |-> l.length]

\* Read returning the number of payload bytes it read.
ReadResultCountRead(l, dst) ==
    IF l.err # "nil"
    THEN [next |-> l.next, wire |-> l.wire, dst |-> dst, n |-> 0,
          err |-> l.err, pending |-> -1]
    ELSE IF l.length > Len(dst)
    THEN [next |-> l.next, wire |-> l.wire, dst |-> dst, n |-> 0,
          err |-> "ErrShortBuffer", pending |-> l.length]
    ELSE LET r == ReadFull(l.wire, l.length) IN
         [next |-> -1, wire |-> r.rest,
          dst |-> r.data \o Drop(dst, Len(r.data)), n |-> Len(r.data),
          err |-> r.err, pending |-> l.length]

\* reader.Read(msg) with msg = dst, after nextMsgLen returned l: the reader,
\* the stream and dst after the call, and the count and error returned.
ReadResult(l, dst) ==
    IF l.err # "nil"
    THEN [next |-> l.next, wire |-> l.wire, dst |-> dst, n |-> 0,
          err |-> l.err, pending |-> -1]
    ELSE IF l.length > Len(dst)
    THEN [next |-> l.next, wire |-> l.wire, dst |-> dst, n |-> 0,
          err |-> "ErrShortBuffer", pending |-> l.length]
    ELSE LET r == ReadFull(l.wire, l.length) IN
         [next |-> -1, wire |-> r.rest,
          dst |-> r.data \o Drop(dst, Len(r.data)), n |-> l.length,
          err |-> r.err, pending |-> l.length]

Read(dst) ==
    /\ ~crashed
    /\ nr < MaxReads
    /\ \E l \in {nextMsgLen(next, wire)} :
       \E r \in {ReadResult(l, dst)} :
        /\ next' = r.next
        /\ wire' = r.wire
        /\ ret' = [NoRet EXCEPT !.op = "Read", !.err = r.err, !.n = r.n,
                                !.msg = Take(r.dst, Min2(r.n, Len(r.dst))),
                                !.dst0 = dst, !.dst = r.dst,
                                !.pending = r.pending, !.had = next]
        /\ delivered' = IF r.err = "nil"
                        THEN Append(delivered, Take(r.dst, r.n))
                        ELSE delivered
        /\ fit' = (fit /\ r.err # "ErrShortBuffer")
    /\ nr' = nr + 1
    /\ UNCHANGED <<broken, pool, held, nalloc, crashed, written, nw>>
    /\ UNCHANGED others

\* A buffer: its identity, its backing array (as long as its capacity) and
\* its logical length.
NilBuf == [id |-> 0, data |-> <<>>, len |-> 0]

\* Pool.Get allocating afresh whatever its free-lists hold.
PoolGetAlwaysFresh(p, na, minSize, deny) ==
    LET c == GetClass(minSize) IN
    IF deny
    THEN [nil |-> TRUE, buf |-> NilBuf, pool |-> p, nalloc |-> na]
    ELSE [nil |-> FALSE,
          buf |-> [id |-> na + 1, data |-> Zeroes(c), len |-> c],
          pool |-> p, nalloc |-> na + 1]

\* Pool.Get handing out the top of a free-list without removing it.
PoolGetNoPop(p, na, minSize, deny) ==
    LET c == GetClass(minSize) IN
    IF deny
    THEN [nil |-> TRUE, buf |-> NilBuf, pool |-> p, nalloc |-> na]
    ELSE IF p[c] # <<>>
    THEN [nil |-> FALSE, buf |-> p[c][Len(p[c])], pool |-> p, nalloc |-> na]
    ELSE [nil |-> FALSE,
          buf |-> [id |-> na + 1, data |-> Zeroes(c), len |-> c],
          pool |-> p, nalloc |-> na + 1]

\* Pool.Get(minSize): the buffer handed out (popped from the class's
\* free-list, or freshly allocated with the class's capacity) and the pool
\* after the call.  A denied request returns nil and changes nothing.
PoolGet(p, na, minSize, deny) ==
    LET c == GetClass(minSize) IN
    IF deny
    THEN [nil |-> TRUE, buf |-> NilBuf, pool |-> p, nalloc |-> na]
    ELSE IF p[c] # <<>>
    THEN [nil |-> FALSE, buf |-> p[c][Len(p[c])],
          pool |-> [p EXCEPT ![c] = Take(p[c], Len(p[c]) - 1)], nalloc |-> na]
    ELSE [nil |-> FALSE,
          buf |-> [id |-> na + 1, data |-> Zeroes(c), len |-> c],
          pool |-> p, nalloc |-> na + 1]

\* Pool.Put(sizeClass, buf)
PoolPut(p, sizeClass, buf) ==
    [p EXCEPT ![PutClass(sizeClass)] = Append(@, buf)]

\* ReadMsg clearing the pending length only when the payload read succeeds.
ReadMsgResultKeepOnError(l, g) ==
    IF l.err # "nil"
    THEN [next |-> l.next, wire |-> l.wire, msg |-> <<>>, err |-> l.err,
          buf |-> g.buf, got |-> FALSE, pending |-> -1]
    ELSE IF g.nil
    THEN [next |-> l.next, wire |-> l.wire, msg |-> <<>>,
          err |-> "ErrShortBuffer", buf |-> g.buf, got |-> FALSE,
          pending |-> l.length]
    ELSE IF l.length > Len(g.buf.data)
    THEN [next |-> l.next, wire |-> l.wire, msg |-> <<>>, err |-> "panic",
          buf |-> g.buf, got |-> FALSE, pending |-> l.length]
    ELSE LET r    == ReadFull(l.wire, l.length)
             data == r.data \o Drop(g.buf.data, Len(r.data))
         IN  [next |-> IF r.err = "nil" THEN -1 ELSE l.next,
              wire |-> r.rest, msg |-> Take(data, l.length),
              err |-> r.err,
              buf |-> [g.buf EXCEPT !.data = data, !.len = l.length],
              got |-> TRUE, pending |-> l.length]

\* reader.ReadMsg() after nextMsgLen returned l and the pool answered g.
\* msgb.([]byte)[:length] panics when length exceeds the buffer's capacity.
ReadMsgResult(l, g) ==
    IF l.err # "nil"
    THEN [next |-> l.next, wire |-> l.wire, msg |-> <<>>, err |-> l.err,
          buf |-> g.buf, got |-> FALSE, pending |-> -1]
    ELSE IF g.nil
    THEN [next |-> l.next, wire |-> l.wire, msg |-> <<>>,
          err |-> "ErrShortBuffer", buf |-> g.buf, got |-> FALSE,
          pending |-> l.length]
    ELSE IF l.length > Len(g.buf.data)
    THEN [next |-> l.next, wire |-> l.wire, msg |-> <<>>, err |-> "panic",
          buf |-> g.buf, got |-> FALSE, pending |-> l.length]
    ELSE LET r    == ReadFull(l.wire, l.length)
             data == r.data \o Drop(g.buf.data, Len(r.data))
         IN  [next |-> -1, wire |-> r.rest, msg |-> Take(data, l.length),
              err |-> r.err,
              buf |-> [g.buf EXCEPT !.data = data, !.len = l.length],
              got |-> TRUE, pending |-> l.length]

ReadMsg(deny) ==
    /\ ~crashed
    /\ nr < MaxReads
    /\ \E l \in {nextMsgLen(next, wire)} :
       \E g \in {IF l.err = "nil" THEN PoolGet(pool, nalloc, l.length, deny)
                 ELSE PoolGet(pool, nalloc, 0, TRUE)} :
       \E r \in {ReadMsgResult(l, g)} :
        /\ next' = r.next
        /\ wire' = r.wire
        /\ pool' = g.pool
        /\ nalloc' = g.nalloc
        /\ held' = IF r.got THEN held \cup {r.buf} ELSE held
        /\ crashed' = (r.err = "panic")
        /\ ret' = [NoRet EXCEPT !.op = "ReadMsg", !.err = r.err,
                                !.n = Len(r.msg), !.msg = r.msg,
                                !.pending = r.pending, !.had = next,
                                !.cap = IF g.nil THEN 0 ELSE Len(g.buf.data)]
        /\ delivered' = IF r.err = "nil" THEN Append(delivered, r.msg)
                        ELSE delivered
        /\ fit' = (fit /\ r.err # "ErrShortBuffer")
    /\ nr' = nr + 1
    /\ UNCHANGED <<broken, written, nw>>
    /\ UNCHANGED others

\* ReleaseMsg keying the buffer by its logical length.
ReleaseKeyByLen(buf) ==
    IF buf.len > MaxLength THEN MaxLength ELSE buf.len

\* The size key ReleaseMsg hands to Put: cap(msg), clamped to MaxLength.
ReleaseKey(buf) ==
    IF Len(buf.data) > MaxLength THEN MaxLength ELSE Len(buf.data)

\* reader.ReleaseMsg(msg) on a buffer: one ReadMsg handed out, or any other
\* slice of the caller's.
ReleaseMsg(buf) ==
    /\ ~crashed
    /\ pool' = PoolPut(pool, ReleaseKey(buf), buf)
    /\ held' = held \ {buf}
    /\ ret' = [NoRet EXCEPT !.op = "ReleaseMsg", !.cap = Len(buf.data)]
    /\ UNCHANGED <<wire, broken, next, nalloc, crashed, written, delivered,
                   fit, nw, nr>>
    /\ UNCHANGED others

Next ==
    \/ \E msg \in Payloads :
          \E o1 \in WriteOutcomes(broken, lengthSize) :
             \E o2 \in WriteOutcomes(broken, Len(msg)) : WriteMsg(msg, o1, o2)
    \/ \E n \in DstLens : Read(Dst(n))
    \/ \E deny \in BOOLEAN : ReadMsg(deny)
    \/ \E buf \in held : ReleaseMsg(buf)

Spec == Init /\ [][Next]_vars

\* ------------------------------------------------------------- closing

\* What the stream's Close may return.
CloseErrs == {"nil", "ErrClosed", "ErrIO"}

framing == <<wire, broken, next, pool, held, nalloc, crashed, ret,
             written, delivered, fit, nw, nr>>

\* writer.Close / reader.Close by component `by`, the stream's Close (if the
\* stream has one) returning e: the error returned, and whether the stream's
\* Close was called.
ComponentClose(by, closer, e) ==
    [by |-> by, err |-> IF closer THEN e ELSE "nil", hit |-> closer]

Errs(c) == IF c.err # "nil" THEN <<c.err>> ELSE <<>>

\* readWriter.Close giving up after a failed writer close.
RWCloseResultStopAtFirst(closer, e1, e2) ==
    LET w == ComponentClose("writer", closer, e1)
        r == ComponentClose("reader", closer, e2)
    IN  IF w.err # "nil"
        THEN [log |-> <<w>>, errs |-> <<w.err>>, err |-> "multiErr"]
        ELSE [log |-> <<w, r>>, errs |-> Errs(r),
              err |-> IF r.err # "nil" THEN "multiErr" ELSE "nil"]

\* readWriter.Close closing the reader before the writer.
RWCloseResultReaderFirst(closer, e1, e2) ==
    LET r == ComponentClose("reader", closer, e1)
        w == ComponentClose("writer", closer, e2)
        errs == Errs(r) \o Errs(w)
    IN  [log |-> <<r, w>>, errs |-> errs,
         err |-> IF Len(errs) > 0 THEN "multiErr" ELSE "nil"]

\* readWriter.Close closing the stream its two components share only once.
RWCloseResultOnce(closer, e1, e2) ==
    LET w == ComponentClose("writer", closer, e1)
        r == ComponentClose("reader", FALSE, e2)
        errs == Errs(w) \o Errs(r)
    IN  [log |-> <<w, r>>, errs |-> errs,
         err |-> IF Len(errs) > 0 THEN "multiErr" ELSE "nil"]

\* readWriter.Close, the stream's Close returning e1 to the writer and e2 to
\* the reader: the component closes made, the errors collected, and the
\* error returned (nil, or the multiErr of the errors collected).
RWCloseResult(closer, e1, e2) ==
    LET w == ComponentClose("writer", closer, e1)
        r == ComponentClose("reader", closer, e2)
        errs == Errs(w) \o Errs(r)
    IN  [log |-> <<w, r>>, errs |-> errs,
         err |-> IF Len(errs) > 0 THEN "multiErr" ELSE "nil"]

\* Close on the endpoint NewReadWriter built.
RWClose(e1, e2) ==
    /\ cls.n < MaxCloses
    /\ \E c \in {RWCloseResult(cls.closer, e1, e2)} :
          cls' = [cls EXCEPT !.n = @ + 1, !.log = @ \o c.log,
                             !.ret = [op |-> "readWriter.Close",
                                      err |-> c.err, errs |-> c.errs]]
    /\ UNCHANGED framing
    /\ UNCHANGED <<rdrs, lbuf, rcall, wcall>>

\* Close on the writer alone.
WriterClose(e) ==
    /\ cls.n < MaxCloses
    /\ \E c \in {ComponentClose("writer", cls.closer, e)} :
          cls' = [cls EXCEPT !.n = @ + 1, !.log = Append(@, c),
                             !.ret = [op |-> "writer.Close", err |-> c.err,
                                      errs |-> <<>>]]
    /\ UNCHANGED framing
    /\ UNCHANGED <<rdrs, lbuf, rcall, wcall>>

\* Close on the reader alone.
ReaderClose(e) ==
    /\ cls.n < MaxCloses
    /\ \E c \in {ComponentClose("reader", cls.closer, e)} :
          cls' = [cls EXCEPT !.n = @ + 1, !.log = Append(@, c),
                             !.ret = [op |-> "reader.Close", err |-> c.err,
                                      errs |-> <<>>]]
    /\ UNCHANGED framing
    /\ UNCHANGED <<rdrs, lbuf, rcall, wcall>>

InitClose ==
    /\ FramingInit
    /\ \E closer \in BOOLEAN : cls = NoClose(closer)
    /\ Sequential

NextClose ==
    \/ \E e1 \in CloseErrs, e2 \in CloseErrs : RWClose(e1, e2)
    \/ \E e \in CloseErrs : WriterClose(e)
    \/ \E e \in CloseErrs : ReaderClose(e)

SpecClose == InitClose /\ [][NextClose]_vars

\* ------------------------------------------------------------ the claims

ReaderOps == {"Read", "ReadMsg"}

IsPrefix(a, b) == Len(a) <= Len(b) /\ a = SubSeq(b, 1, Len(a))

\* The value of the 4 bytes of s after its first k, most significant first.
PrefixValueAt(s, k) ==
    s[k + 1] * ByteBase ^ 3 + s[k + 2] * ByteBase ^ 2
        + s[k + 3] * ByteBase + s[k + 4]

\* The length of the frame a reader call is about to meet: the pending
\* length, or the value of the next 4 bytes of the stream (-1: too few).
FrameLen(nx, w) ==
    IF nx # -1 THEN nx
    ELSE IF Len(w) >= lengthSize THEN PrefixValueAt(w, 0) ELSE -1

\* Every WriteMsg so far returned nil with a payload the length field can
\* hold, every Read got a destination as long as its frame, and the pool
\* never denied a buffer.
CleanRun ==
    /\ Len(written) = nw
    /\ \A i \in 1 .. Len(written) : Len(written[i]) <= U32Max
    /\ fit

\* C1: with every write succeeding and every Read given a destination as
\* long as its frame, the reader's calls return the written payloads in
\* order, and the call after the last payload fails with end of stream and
\* returns no message.
InOrderDelivery ==
    (CleanRun /\ ret.op \in ReaderOps) =>
        /\ IsPrefix(delivered, written)
        /\ \/ ret.err = "nil"
           \/ ret.err = "EOF" /\ delivered = written /\ ret.n = 0
                /\ ret.msg = <<>>

\* The statement of C1 for payloads no longer than the pool's largest size
\* class: this much the code does.
InOrderDeliveryWithinPool ==
    (CleanRun /\ ret.op \in ReaderOps
        /\ \A i \in 1 .. Len(written) : Len(written[i]) <= MaxLength) =>
        /\ IsPrefix(delivered, written)
        /\ \/ ret.err = "nil"
           \/ ret.err = "EOF" /\ delivered = written /\ ret.n = 0
                /\ ret.msg = <<>>

\* C2: one payload within the range of the length field, written and then
\* read by the first call of a fresh reader (ReadMsg, or Read into a
\* destination at least as long), comes back byte for byte with its length.
RoundTrip ==
    (CleanRun /\ nw = 1 /\ nr = 1 /\ ret.op \in ReaderOps) =>
        /\ ret.err = "nil"
        /\ ret.msg = written[1]
        /\ ret.n = Len(written[1])

\* The statement of C2 for Read alone: this much the code does.
RoundTripRead ==
    (CleanRun /\ nw = 1 /\ nr = 1 /\ ret.op = "Read") =>
        /\ ret.err = "nil"
        /\ ret.msg = written[1]
        /\ ret.n = Len(written[1])

\* C3: a successful WriteMsg of a payload of length L within the range of
\* the length field appends exactly 4 + L bytes to the stream: 4 bytes whose
\* big-endian value is L, then the payload, and nothing else.
LengthPrefixExact ==
    [][(nw' = nw + 1 /\ ret'.err = "nil" /\ Len(ret'.msg) <= U32Max) =>
        /\ Len(wire') = Len(wire) + lengthSize + Len(ret'.msg)
        /\ SubSeq(wire', 1, Len(wire)) = wire
        /\ PrefixValueAt(wire', Len(wire)) = Len(ret'.msg)
        /\ SubSeq(wire', Len(wire) + lengthSize + 1, Len(wire')) = ret'.msg
      ]_vars

\* An empty payload was framed right after a non-empty one, nothing read yet.
LengthPrefixExactWitness ==
    /\ ret.op = "WriteMsg" /\ ret.err = "nil" /\ ret.msg = <<>>
    /\ Len(written) = 2 /\ Len(written[1]) = MaxLength
    /\ nr = 0
    /\ Len(wire) = 2 * lengthSize + MaxLength

\* C4: Read into a destination shorter than the next frame's payload fails
\* with ErrShortBuffer, returns 0 and leaves the destination as it was.
ShortBufferRejected ==
    [][(nr' = nr + 1 /\ ret'.op = "Read"
            /\ FrameLen(next, wire) > Len(ret'.dst0)) =>
        /\ ret'.err = "ErrShortBuffer"
        /\ ret'.n = 0
        /\ ret'.dst = ret'.dst0
      ]_vars

\* A non-empty destination was rejected for a longer frame.
ShortBufferRejectedWitness ==
    /\ ret.op = "Read" /\ ret.err = "ErrShortBuffer"
    /\ Len(ret.dst0) > 0 /\ ret.pending > Len(ret.dst0)
    /\ ret.had = -1

\* C5 as stated: after Read fails with ErrShortBuffer the reader holds no
\* pending length.
ShortBufferForgetsPending ==
    (ret.op = "Read" /\ ret.err = "ErrShortBuffer") => next = -1

\* C5 as amended: after Read fails with ErrShortBuffer the reader keeps the
\* rejected frame's length pending, and a reader call made with a length
\* pending uses that length and takes no length prefix off the stream.
ShortBufferKeepsPending ==
    [][/\ (ret'.op = "Read" /\ ret'.err = "ErrShortBuffer") =>
            (next' = ret'.pending /\ next' > Len(ret'.dst0))
       /\ (nr' = nr + 1 /\ next # -1) =>
            /\ ret'.pending = next
            /\ \/ wire' = wire /\ next' = next
               \/ wire' = Drop(wire, Min2(next, Len(wire))) /\ next' = -1
      ]_vars

\* A frame rejected for a short destination was then read in full by the
\* next reader call, which found its length pending.
ShortBufferKeepsPendingWitness ==
    /\ ret.op \in ReaderOps /\ ret.err = "nil"
    /\ ret.had # -1 /\ ret.n = ret.had /\ ret.n > 0
    /\ delivered = written /\ Len(written) = 1 /\ nw = 1

\* C6 as stated: a ReadMsg call that has decoded a length prefix and returns
\* leaves the reader with no pending length, whatever its outcome.
ReadMsgAlwaysClears ==
    (ret.op = "ReadMsg" /\ ret.pending # -1 /\ ret.err # "panic") =>
        next = -1

\* C6 as amended: a ReadMsg call that has decoded a length prefix and returns
\* leaves no pending length when the pool supplied a buffer (the payload read
\* succeeding or ending in a stream error), and leaves the decoded length
\* pending when the pool denied the request (ErrShortBuffer).
ReadMsgClearsUnlessDenied ==
    (ret.op = "ReadMsg" /\ ret.pending # -1 /\ ret.err # "panic") =>
        IF ret.err = "ErrShortBuffer" THEN next = ret.pending ELSE next = -1

\* ReadMsg decoded a length, met the end of the stream inside the payload,
\* and left nothing pending.
ReadMsgClearsUnlessDeniedWitness ==
    /\ ret.op = "ReadMsg" /\ ret.err = "ErrUnexpectedEOF"
    /\ ret.pending > 0 /\ ret.had = -1
    /\ next = -1

\* C7: ReadMsg fails with ErrShortBuffer when the pool's buffer is too small
\* for the pending payload (a pending length above the largest size class),
\* and never aborts.
ReadMsgShortPoolBuffer ==
    (ret.op = "ReadMsg" /\ ret.pending > MaxLength) =>
        ret.err = "ErrShortBuffer"

\* C8: WriteMsg of a payload longer than the largest uint32 fails with an
\* encoding error (the stream itself accepting every write).
OversizeWriteFails ==
    (ret.op = "WriteMsg" /\ Len(ret.msg) > U32Max /\ ~broken) =>
        ret.err = "EncodingError"

\* C9: when the stream write of the length prefix fails, WriteMsg returns
\* that error and makes no payload write: the stream saw one write, and
\* holds no byte beyond what that write accepted.
LengthWriteFailureStops ==
    [][(nw' = nw + 1 /\ ret'.calls[1].err # "nil") =>
        /\ ret'.err = ret'.calls[1].err
        /\ Len(ret'.calls) = 1
        /\ Len(wire') = Len(wire) + ret'.calls[1].n
        /\ SubSeq(wire', 1, Len(wire)) = wire
      ]_vars

\* The length write of a non-empty payload failed part-way on a stream that
\* had worked until then.
LengthWriteFailureStopsWitness ==
    /\ ret.op = "WriteMsg" /\ ret.err = "ErrIO"
    /\ Len(ret.calls) = 1 /\ ret.calls[1].n = lengthSize - 1
    /\ Len(ret.msg) > 0
    /\ Len(written) = 1

\* C10: per WriteMsg call the stream sees at most one length write and at
\* most one payload write; when the payload write fails after the length
\* write succeeded, WriteMsg returns the stream's error and the prefix, with
\* whatever part of the payload the stream accepted, stays on the stream.
PayloadWriteFailureSurfaced ==
    [][(nw' = nw + 1) =>
        /\ Len(ret'.calls) <= 2
        /\ (Len(ret'.calls) = 2 /\ ret'.calls[2].err # "nil") =>
            /\ ret'.calls[1].err = "nil"
            /\ ret'.err = ret'.calls[2].err
            /\ Len(wire') = Len(wire) + lengthSize + ret'.calls[2].n
            /\ SubSeq(wire', 1, Len(wire)) = wire
            /\ PrefixValueAt(wire', Len(wire)) = Uint32(Len(ret'.msg))
            /\ SubSeq(wire', Len(wire) + lengthSize + 1, Len(wire'))
                  = SubSeq(ret'.msg, 1, ret'.calls[2].n)
      ]_vars

\* The payload write failed part-way after a successful length write.
PayloadWriteFailureSurfacedWitness ==
    /\ ret.op = "WriteMsg" /\ ret.err = "ErrIO"
    /\ Len(ret.calls) = 2 /\ ret.calls[2].n > 0
    /\ nr = 0 /\ nw = 1
    /\ Len(wire) = lengthSize + ret.calls[2].n

\* ------------------------------------------------------- claims: closing

\* A step that is one Close call on the combined endpoint.
RWCloseStep == cls'.n = cls.n + 1 /\ cls'.ret.op = "readWriter.Close"

\* The component closes the step made.
NewCloses == SubSeq(cls'.log, Len(cls.log) + 1, Len(cls'.log))

NonNil(e) == e # "nil"

\* C11: Close on the combined endpoint always closes both components; it
\* returns nil exactly when both closes returned nil, and otherwise a
\* multiErr holding every error the closes returned and nothing else.
CloseAttemptsBoth ==
    [][RWCloseStep =>
        /\ Len(NewCloses) = 2
        /\ {NewCloses[1].by, NewCloses[2].by} = {"writer", "reader"}
        /\ (cls'.ret.err = "nil")
              <=> (NewCloses[1].err = "nil" /\ NewCloses[2].err = "nil")
        /\ cls'.ret.err \in {"nil", "multiErr"}
        /\ cls'.ret.errs
              = SelectSeq(<<NewCloses[1].err, NewCloses[2].err>>, NonNil)
      ]_vars

\* The writer's close failed, the reader's close was made all the same and
\* succeeded, and the endpoint's Close reports the one error.
CloseAttemptsBothWitness ==
    /\ cls.ret.op = "readWriter.Close" /\ cls.n = 1
    /\ cls.ret.err = "multiErr" /\ cls.ret.errs = <<"ErrIO">>
    /\ Len(cls.log) = 2
    /\ cls.log[1].by = "writer" /\ cls.log[1].err = "ErrIO"
    /\ cls.log[2].by = "reader" /\ cls.log[2].err = "nil"

\* C12: the writer is closed before the reader, and when both closes fail
\* the multiErr holds exactly two entries, the writer's error first and the
\* reader's second.
CloseErrorOrder ==
    [][RWCloseStep =>
        /\ Len(NewCloses) >= 1 /\ NewCloses[1].by = "writer"
        /\ (Len(NewCloses) >= 2) => NewCloses[2].by = "reader"
        /\ (/\ Len(NewCloses) = 2
            /\ NewCloses[1].err # "nil" /\ NewCloses[2].err # "nil") =>
              /\ cls'.ret.err = "multiErr"
              /\ cls'.ret.errs = <<NewCloses[1].err, NewCloses[2].err>>
      ]_vars

\* Both closes failed, with different errors.
CloseErrorOrderWitness ==
    /\ cls.ret.op = "readWriter.Close" /\ cls.n = 1
    /\ cls.ret.errs = <<"ErrIO", "ErrClosed">>
    /\ cls.log[1].by = "writer" /\ cls.log[1].err = "ErrIO"
    /\ cls.log[2].by = "reader" /\ cls.log[2].err = "ErrClosed"

\* C19: on a stream that is an io.Closer, Close on the endpoint NewReadWriter
\* built calls the stream's Close twice, for the writer and then for the
\* reader, and fails when the second call fails although the first succeeded.
StreamClosedTwice ==
    [][(RWCloseStep /\ cls.closer) =>
        /\ Len(NewCloses) = 2
        /\ NewCloses[1].by = "writer" /\ NewCloses[1].hit
        /\ NewCloses[2].by = "reader" /\ NewCloses[2].hit
        /\ (NewCloses[1].err = "nil" /\ NewCloses[2].err # "nil") =>
              /\ cls'.ret.err = "multiErr"
              /\ cls'.ret.errs = <<NewCloses[2].err>>
      ]_vars

\* The stream's first Close succeeded, its second reported that the stream
\* is already closed, and the endpoint's Close failed with that error.
StreamClosedTwiceWitness ==
    /\ cls.closer /\ cls.ret.op = "readWriter.Close" /\ cls.n = 1
    /\ Len(cls.log) = 2
    /\ cls.log[1].hit /\ cls.log[1].err = "nil"
    /\ cls.log[2].hit /\ cls.log[2].err = "ErrClosed"
    /\ cls.ret.err = "multiErr" /\ cls.ret.errs = <<"ErrClosed">>

\* ------------------------------------------------ claims: truncated prefix

\* C13: when fewer than lengthSize bytes remain on the stream and no length
\* is pending, Read and ReadMsg fail with the stream's error (EOF when
\* nothing remains, ErrUnexpectedEOF when part of a prefix remains), deliver
\* no payload and leave no length pending.
TruncatedPrefixFails ==
    [][(nr' = nr + 1 /\ next = -1 /\ Len(wire) < lengthSize) =>
        /\ ret'.op \in ReaderOps
        /\ ret'.err = (IF wire = <<>> THEN "EOF" ELSE "ErrUnexpectedEOF")
        /\ ret'.n = 0 /\ ret'.msg = <<>> /\ ret'.dst = ret'.dst0
        /\ delivered' = delivered /\ held' = held
        /\ next' = -1
      ]_vars

\* A read met a prefix cut short after its third byte.
TruncatedPrefixFailsWitness ==
    /\ ret.op \in ReaderOps /\ ret.err = "ErrUnexpectedEOF"
    /\ ret.had = -1 /\ ret.pending = -1
    /\ nw = 1 /\ nr = 1 /\ next = -1 /\ wire = <<>>
    /\ written = <<>>

\* ------------------------------------------- claims: truncated payload

\* The bytes of the stream w that follow the prefix a reader call with
\* pending length nx is about to meet.
PayloadAvail(nx, w) == IF nx # -1 THEN Len(w) ELSE Len(w) - lengthSize

\* C20: when the stream ends inside the payload of a frame of length L that
\* fits the destination, Read returns the stream's error with the declared
\* length L as its count (neither 0 nor the number of bytes read) and clears
\* the pending length; the count is 0 with an error only when the error
\* came before the payload read (prefix failure or short destination).
TruncatedPayloadCount ==
    [][(nr' = nr + 1 /\ ret'.op = "Read") =>
        /\ \A L \in 0 .. U32Max :
             (/\ L = FrameLen(next, wire)
              /\ L <= Len(ret'.dst0)
              /\ PayloadAvail(next, wire) < L) =>
                /\ ret'.err = (IF PayloadAvail(next, wire) = 0 THEN "EOF"
                               ELSE "ErrUnexpectedEOF")
                /\ ret'.n = L /\ ret'.n # PayloadAvail(next, wire)
                /\ next' = -1
        /\ (ret'.err # "nil" /\ ret'.n = 0) =>
              \/ ret'.err = "ErrShortBuffer"
              \/ ret'.pending = -1 /\ FrameLen(next, wire) = -1
      ]_vars

\* The stream held a whole prefix announcing MaxLength bytes and all but the
\* last byte of the payload; Read reported MaxLength with the stream's error.
TruncatedPayloadCountWitness ==
    /\ ret.op = "Read" /\ ret.err = "ErrUnexpectedEOF"
    /\ ret.pending = MaxLength /\ ret.n = MaxLength
    /\ Len(ret.dst0) > MaxLength
    /\ nw = 1 /\ nr = 1 /\ written = <<>> /\ next = -1 /\ wire = <<>>

\* ---------------------------------------------------- releasing buffers

\* A slice of the caller's own, larger than the pool's largest class.
Foreign == {[id |-> -1, data |-> Zeroes(MaxLength + 1), len |-> 1]}

Pooled(buf) == \E c \in SizeClasses : \E i \in 1 .. Len(pool[c]) : pool[c][i] = buf

\* Frames that fill the pool's buffers and frames that do not.
PoolPayloads == {Pattern(L, 0) : L \in {0, MaxLength - 1, MaxLength}}

\* Fault-free writes, ReadMsg, and ReleaseMsg of buffers ReadMsg handed out
\* and of a slice of the caller's, each released once.
NextPool ==
    \/ \E msg \in PoolPayloads :
          WriteMsg(msg, [n |-> lengthSize, err |-> "nil"],
                        [n |-> Len(msg), err |-> "nil"])
    \/ \E deny \in BOOLEAN : ReadMsg(deny)
    \/ \E buf \in held : ReleaseMsg(buf)
    \/ \E buf \in Foreign : ~Pooled(buf) /\ buf \notin held /\ ReleaseMsg(buf)

SpecPool == Init /\ [][NextPool]_vars

\* ------------------------------------------------ claims: the buffer pool

\* A step that is one ReleaseMsg call.
ReleaseStep == ret'.op = "ReleaseMsg" /\ pool' # pool

\* C14: ReleaseMsg puts the buffer on the free-list of the class
\* min(cap(buf), MaxLength), whatever the buffer's logical length, and
\* touches no other free-list; a buffer ReadMsg handed out goes back to the
\* class its request was served from.
ReleaseKeyedByCapacity ==
    [][ReleaseStep =>
        \E k \in SizeClasses :
            /\ Len(pool'[k]) = Len(pool[k]) + 1
            /\ \E b \in {pool'[k][Len(pool'[k])]} :
                /\ pool' = [pool EXCEPT ![k] = Append(@, b)]
                /\ b \in held \cup Foreign
                /\ k = Min2(Len(b.data), MaxLength)
                /\ (b \in held /\ b \notin Foreign) => k = GetClass(b.len)
                /\ held' = held \ {b}
      ]_vars

\* The largest class's free-list holds a released slice of capacity above
\* MaxLength, and a released ReadMsg buffer whose frame was shorter than its
\* capacity.
ReleaseKeyedByCapacityWitness ==
    /\ ret.op = "ReleaseMsg"
    /\ \E i \in 1 .. Len(pool[MaxLength]) :
          pool[MaxLength][i] \in Foreign
    /\ \E i \in 1 .. Len(pool[MaxLength]) :
          /\ pool[MaxLength][i].id > 0
          /\ pool[MaxLength][i].len < Len(pool[MaxLength][i].data)
          /\ pool[MaxLength][i].len > 0

\* A ReadMsg call that follows a ReleaseMsg call with no call in between,
\* and asks the pool for a buffer.
GetAfterRelease ==
    /\ ret.op = "ReleaseMsg"
    /\ nr' = nr + 1 /\ ret'.op = "ReadMsg"
    /\ FrameLen(next, wire) # -1
    /\ ret'.err # "ErrShortBuffer"

\* C15 as stated: the request after a release, for a size equal to or
\* smaller than the released buffer's, is served without an allocation by a
\* buffer of at least the released capacity.
PoolReuseAnySmaller ==
    [][(GetAfterRelease /\ FrameLen(next, wire) <= ret.cap) =>
        /\ nalloc' = nalloc
        /\ ret'.cap >= ret.cap
      ]_vars

\* C15: the request after a release that falls in the released buffer's
\* size class is served from that class's free-list, by a buffer of the
\* released capacity, without an allocation.
PoolReuseSameClass ==
    [][(GetAfterRelease /\ FrameLen(next, wire) <= MaxLength
            /\ GetClass(FrameLen(next, wire)) = PutClass(ret.cap)) =>
        /\ nalloc' = nalloc
        /\ ret'.cap = ret.cap
        /\ pool' = [pool EXCEPT ![PutClass(ret.cap)] = Take(@, Len(@) - 1)]
      ]_vars

\* The one buffer allocated so far carried a one-byte frame, was released,
\* and now carries an empty frame.
PoolReuseSameClassWitness ==
    /\ ret.op = "ReadMsg" /\ ret.err = "nil"
    /\ nalloc = 1
    /\ \E b \in held : b.id = 1 /\ b.len = 0 /\ b.data = <<1>>

\* ------------------------------------------- Readers sharing one pool

\* The Readers NewReaderWithPool built over one pool, each on its own stream.
Readers == {1, 2}

\* What WriteMsg puts on a fault-free stream for msg.
Frame(msg) == PutUint32(Uint32(Len(msg))) \o msg

RECURSIVE Frames(_)
Frames(ms) == IF ms = <<>> THEN <<>> ELSE Frame(Head(ms)) \o Frames(Tail(ms))

SharedPayloads == {Pattern(1, 0), Pattern(MaxLength, 0)}

\* The streams the sharing Readers read: MaxMsgs whole frames.
SharedStreams == {Frames(ms) : ms \in [1 .. MaxMsgs -> SharedPayloads]}

InitShared ==
    /\ FramingInit
    /\ cls = NoClose(TRUE)
    /\ rdrs \in [Readers -> {[wire |-> w, next |-> -1, pc |-> "idle",
                               msgb |-> NilBuf, held |-> {}, n |-> 0] :
                                 w \in SharedStreams}]
    /\ lbuf = Zeroes(lengthSize)
    /\ rcall = NoCalls
    /\ wcall = NoCalls

\* ReadMsg on Reader r up to the pool's answer: nextMsgLen on r's own state,
\* then Get on the shared pool.
SharedReadMsgGet(r, deny) ==
    /\ rdrs[r].pc = "idle"
    /\ \E l \in {nextMsgLen(rdrs[r].next, rdrs[r].wire)} :
       \E g \in {IF l.err = "nil" THEN PoolGet(pool, nalloc, l.length, deny)
                 ELSE PoolGet(pool, nalloc, 0, TRUE)} :
        /\ rdrs' = [rdrs EXCEPT ![r].next = l.next, ![r].wire = l.wire,
                                ![r].pc = IF g.nil THEN "idle" ELSE "got",
                                ![r].msgb = g.buf]
        /\ pool' = g.pool
        /\ nalloc' = g.nalloc
    /\ UNCHANGED <<wire, broken, next, held, crashed, ret, written,
                   delivered, fit, nw, nr, cls, lbuf, rcall, wcall>>

\* The rest of ReadMsg on Reader r: the payload read into the pool's buffer,
\* which the caller then holds.
SharedReadMsgReturn(r) ==
    /\ rdrs[r].pc = "got"
    /\ \E l \in {[length |-> rdrs[r].next, err |-> "nil",
                  next |-> rdrs[r].next, wire |-> rdrs[r].wire]} :
       \E g \in {[nil |-> FALSE, buf |-> rdrs[r].msgb, pool |-> pool,
                  nalloc |-> nalloc]} :
       \E m \in {ReadMsgResult(l, g)} :
          rdrs' = [rdrs EXCEPT ![r].next = m.next, ![r].wire = m.wire,
                               ![r].pc = "idle", ![r].msgb = NilBuf,
                               ![r].held = IF m.got THEN @ \cup {m.buf} ELSE @,
                               ![r].n = IF m.err = "nil" THEN @ + 1 ELSE @]
    /\ UNCHANGED <<wire, broken, next, pool, held, nalloc, crashed, ret,
                   written, delivered, fit, nw, nr, cls, lbuf, rcall, wcall>>

\* ReleaseMsg on Reader r of a buffer its caller holds.
SharedReleaseMsg(r, buf) ==
    /\ buf \in rdrs[r].held
    /\ pool' = PoolPut(pool, ReleaseKey(buf), buf)
    /\ rdrs' = [rdrs EXCEPT ![r].held = @ \ {buf}]
    /\ UNCHANGED <<wire, broken, next, held, nalloc, crashed, ret, written,
                   delivered, fit, nw, nr, cls, lbuf, rcall, wcall>>

NextShared ==
    \/ \E r \in Readers : \E deny \in BOOLEAN : SharedReadMsgGet(r, deny)
    \/ \E r \in Readers : SharedReadMsgReturn(r)
    \/ \E r \in Readers : \E buf \in rdrs[r].held : SharedReleaseMsg(r, buf)

SpecShared == InitShared /\ [][NextShared]_vars

\* ------------------------------------------- claims: the shared pool

\* The buffers Reader r's callers have: those ReadMsg returned and that were
\* not released, and the one a ReadMsg in progress took from the pool.
SharedIds(r) ==
    {b.id : b \in rdrs[r].held}
        \cup (IF rdrs[r].pc = "got" THEN {rdrs[r].msgb.id} ELSE {})

\* C16: with Readers sharing one pool, calling ReadMsg and ReleaseMsg
\* concurrently and releasing each buffer once, no buffer is with two
\* callers at a time, and none is both with a caller and on a free-list.
NoBufferHeldTwice ==
    \A r1 \in DOMAIN rdrs :
        /\ \A r2 \in DOMAIN rdrs \ {r1} : SharedIds(r1) \cap SharedIds(r2) = {}
        /\ \A b1 \in rdrs[r1].held : \A b2 \in rdrs[r1].held :
              b1.id = b2.id => b1 = b2
        /\ rdrs[r1].pc = "got" =>
              \A b \in rdrs[r1].held : b.id # rdrs[r1].msgb.id
        /\ \A c \in SizeClasses : \A i \in 1 .. Len(pool[c]) :
              pool[c][i].id \notin SharedIds(r1)

\* The only buffer allocated so far was returned to Reader 1's caller,
\* released, and is now held by Reader 2's caller.
NoBufferHeldTwiceWitness ==
    /\ DOMAIN rdrs = Readers
    /\ nalloc = 1
    /\ rdrs[1].n = 1 /\ rdrs[1].held = {} /\ rdrs[1].pc = "idle"
    /\ rdrs[2].n = 1 /\ \E b \in rdrs[2].held : b.id = 1

\* ------------------------------------ concurrent calls on one Reader

\* The threads of control that call the one Reader (or the one Writer).
Callers == {1, 2}

IdleCall ==
    [pc |-> "idle", op |-> "none", length |-> 0, n |-> 0, err |-> "nil",
     msg |-> <<>>, buf |-> NilBuf]

\* Frames short enough for every destination and for the pool.
ConcPayloads == {Pattern(1, 0), Pattern(MaxLength, 0)}

\* The destination every concurrent Read is given.
ConcDst == Dst(MaxLength)

InitConcRead ==
    /\ FramingInit
    /\ cls = NoClose(TRUE)
    /\ rdrs = <<>>
    /\ lbuf = Zeroes(lengthSize)
    /\ rcall = [th |-> [t \in Callers |-> IdleCall], overlapped |-> FALSE]
    /\ wcall = NoCalls

rest == <<broken, written, nw, fit, cls, rdrs, wcall>>

\* Caller t enters Read (op = "Read") or ReadMsg.
ConcCall(t, op) ==
    /\ ~crashed /\ nr < MaxReads
    /\ rcall.th[t].pc = "idle"
    /\ rcall' = [th |-> [rcall.th EXCEPT ![t] = [IdleCall EXCEPT
                                        !.pc = "test", !.op = op]],
                 overlapped |-> \/ rcall.overlapped
                                \/ \E u \in Callers \ {t} :
                                      rcall.th[u].pc # "idle"]
    /\ nr' = nr + 1
    /\ UNCHANGED <<wire, next, pool, held, nalloc, crashed, ret, delivered,
                   lbuf>>
    /\ UNCHANGED rest

\* nextMsgLen: if s.next == -1
ConcTest(t) ==
    /\ ~crashed
    /\ rcall.th[t].pc = "test"
    /\ rcall' = [rcall EXCEPT !.th[t].pc =
                    IF next = -1 THEN "readlen" ELSE "retlen"]
    /\ UNCHANGED <<wire, next, pool, held, nalloc, crashed, ret, delivered,
                   lbuf, nr>>
    /\ UNCHANGED rest

\* nextMsgLen: io.ReadFull(s.R, s.lbuf), returning 0 and the error if any.
ConcReadLen(t) ==
    /\ ~crashed
    /\ rcall.th[t].pc = "readlen"
    /\ \E r \in {ReadFull(wire, lengthSize)} :
        /\ wire' = r.rest
        /\ lbuf' = r.data \o Drop(lbuf, Len(r.data))
        /\ IF r.err # "nil"
           THEN /\ rcall' = [rcall EXCEPT !.th[t] = IdleCall]
                /\ ret' = [NoRet EXCEPT !.op = rcall.th[t].op, !.err = r.err]
           ELSE /\ rcall' = [rcall EXCEPT !.th[t].pc = "setnext"]
                /\ ret' = ret
    /\ UNCHANGED <<next, pool, held, nalloc, crashed, delivered, nr>>
    /\ UNCHANGED rest

\* nextMsgLen: s.next = int(NBO.Uint32(s.lbuf))
ConcSetNext(t) ==
    /\ ~crashed
    /\ rcall.th[t].pc = "setnext"
    /\ next' = GetUint32(lbuf)
    /\ rcall' = [rcall EXCEPT !.th[t].pc = "retlen"]
    /\ UNCHANGED <<wire, pool, held, nalloc, crashed, ret, delivered, lbuf,
                   nr>>
    /\ UNCHANGED rest

\* nextMsgLen: return s.next, nil
ConcRetLen(t) ==
    /\ ~crashed
    /\ rcall.th[t].pc = "retlen"
    /\ rcall' = [rcall EXCEPT !.th[t].pc = "body", !.th[t].length = next]
    /\ UNCHANGED <<wire, next, pool, held, nalloc, crashed, ret, delivered,
                   lbuf, nr>>
    /\ UNCHANGED rest

\* The body of Read / ReadMsg of caller record c after nextMsgLen returned
\* c.length, on a stream holding w and a pool p that has allocated na
\* buffers: a negative length panics in msg[:length]; otherwise the short
\* buffer check or the pool's Get, and the payload read.
ConcBodyResult(c, w, p, na) ==
    LET l == [length |-> c.length, err |-> "nil", next |-> c.length,
              wire |-> w]
    IN
    IF c.op = "Read"
    THEN IF c.length < 0
         THEN [wire |-> w, pool |-> p, nalloc |-> na, exit |-> "panic",
               n |-> 0, err |-> "panic", msg |-> <<>>, buf |-> NilBuf]
         ELSE LET r == ReadResult(l, ConcDst) IN
              [wire |-> r.wire, pool |-> p, nalloc |-> na,
               exit |-> IF r.err = "ErrShortBuffer" THEN "return"
                        ELSE "clear",
               n |-> r.n, err |-> r.err,
               msg |-> Take(r.dst, Min2(r.n, Len(r.dst))), buf |-> NilBuf]
    ELSE LET g == PoolGet(p, na, Uint32(c.length), FALSE) IN
         IF c.length < 0
         THEN [wire |-> w, pool |-> g.pool, nalloc |-> g.nalloc,
               exit |-> "panic", n |-> 0, err |-> "panic", msg |-> <<>>,
               buf |-> NilBuf]
         ELSE LET m == ReadMsgResult(l, g) IN
              [wire |-> m.wire, pool |-> g.pool, nalloc |-> g.nalloc,
               exit |-> IF m.err = "panic" THEN "panic" ELSE "clear",
               n |-> Len(m.msg), err |-> m.err, msg |-> m.msg,
               buf |-> IF m.got THEN m.buf ELSE NilBuf]

\* Read: the short buffer check and io.ReadFull(s.R, msg[:length]);
\* ReadMsg: s.pool.Get, msgb.([]byte)[:length] and io.ReadFull(s.R, msg).
ConcBody(t) ==
    /\ ~crashed
    /\ rcall.th[t].pc = "body"
    /\ \E b \in {ConcBodyResult(rcall.th[t], wire, pool, nalloc)} :
        /\ wire' = b.wire
        /\ pool' = b.pool
        /\ nalloc' = b.nalloc
        /\ crashed' = (b.exit = "panic")
        /\ IF b.exit = "clear"
           THEN /\ rcall' = [rcall EXCEPT !.th[t].pc = "clear",
                                          !.th[t].n = b.n,
                                          !.th[t].err = b.err,
                                          !.th[t].msg = b.msg,
                                          !.th[t].buf = b.buf]
                /\ ret' = ret
           ELSE /\ rcall' = [rcall EXCEPT !.th[t] = IdleCall]
                /\ ret' = [NoRet EXCEPT !.op = rcall.th[t].op,
                                        !.err = b.err, !.n = b.n,
                                        !.pending = rcall.th[t].length]
    /\ UNCHANGED <<next, held, delivered, lbuf, nr>>
    /\ UNCHANGED rest

\* The return of Read / ReadMsg without s.next = -1.
ConcClearKeep(t) ==
    /\ ~crashed
    /\ rcall.th[t].pc = "clear"
    /\ next' = next
    /\ \E c \in {rcall.th[t]} :
        /\ ret' = [NoRet EXCEPT !.op = c.op, !.err = c.err, !.n = c.n,
                                !.msg = c.msg, !.pending = c.length]
        /\ delivered' = IF c.err = "nil" THEN Append(delivered, c.msg)
                        ELSE delivered
        /\ held' = IF c.buf # NilBuf THEN held \cup {c.buf} ELSE held
    /\ rcall' = [rcall EXCEPT !.th[t] = IdleCall]
    /\ UNCHANGED <<wire, pool, nalloc, crashed, lbuf, nr>>
    /\ UNCHANGED rest

\* s.next = -1 and the return of Read (length, err) / ReadMsg (msg, err).
ConcClear(t) ==
    /\ ~crashed
    /\ rcall.th[t].pc = "clear"
    /\ next' = -1
    /\ \E c \in {rcall.th[t]} :
        /\ ret' = [NoRet EXCEPT !.op = c.op, !.err = c.err, !.n = c.n,
                                !.msg = c.msg, !.pending = c.length]
        /\ delivered' = IF c.err = "nil" THEN Append(delivered, c.msg)
                        ELSE delivered
        /\ held' = IF c.buf # NilBuf THEN held \cup {c.buf} ELSE held
    /\ rcall' = [rcall EXCEPT !.th[t] = IdleCall]
    /\ UNCHANGED <<wire, pool, nalloc, crashed, lbuf, nr>>
    /\ UNCHANGED rest

\* A Writer that writes whole frames, and two callers of the one Reader.
NextConcRead ==
    \/ \E msg \in ConcPayloads :
          WriteMsg(msg, [n |-> lengthSize, err |-> "nil"],
                        [n |-> Len(msg), err |-> "nil"])
    \/ \E t \in Callers : \E op \in ReaderOps : ConcCall(t, op)
    \/ \E t \in Callers : ConcTest(t)
    \/ \E t \in Callers : ConcReadLen(t)
    \/ \E t \in Callers : ConcSetNext(t)
    \/ \E t \in Callers : ConcRetLen(t)
    \/ \E t \in Callers : ConcBody(t)
    \/ \E t \in Callers : ConcClear(t)

SpecConcRead == InitConcRead /\ [][NextConcRead]_vars

\* ------------------------------- claims: concurrent calls on one Reader

Range(s) == {s[i] : i \in 1 .. Len(s)}

\* C17: as long as the calls on the Reader never overlap, no call panics,
\* every call returns the next written payload or end of stream, and no
\* frame is lost: between calls the stream holds exactly the frames not yet
\* returned.  (Overlapping calls break this: see the witness.)
SingleCallerSafe ==
    (DOMAIN rcall.th = Callers /\ ~rcall.overlapped) =>
        /\ ~crashed
        /\ IsPrefix(delivered, written)
        /\ ret.op \in ReaderOps =>
              /\ ret.err \in {"nil", "EOF"}
              /\ ret.err = "nil" => ret.msg \in Range(written)
        /\ (\A t \in Callers : rcall.th[t].pc = "idle") =>
              /\ next = -1
              /\ wire = Frames(SubSeq(written, Len(delivered) + 1,
                                      Len(written)))

\* Two calls overlapped and one of them returned, without error, bytes that
\* are the payload of no frame written.
SingleCallerSafeWitness ==
    /\ DOMAIN rcall.th = Callers /\ rcall.overlapped
    /\ nw = MaxMsgs /\ Len(written) = MaxMsgs
    /\ ret.op \in ReaderOps /\ ret.err = "nil"
    /\ ret.msg \notin Range(written)

\* ------------------------------------ concurrent calls on one Writer

IdleWrite == [pc |-> "idle", msg |-> <<>>]

ConcWritePayloads == {<<>>, Pattern(1, 0), Pattern(MaxLength, 0)}

InitConcWrite ==
    /\ FramingInit
    /\ cls = NoClose(TRUE)
    /\ rdrs = <<>>
    /\ lbuf = Zeroes(lengthSize)
    /\ rcall = NoCalls
    /\ wcall = [th |-> [t \in Callers |-> IdleWrite], overlapped |-> FALSE]

readerSide == <<next, pool, held, nalloc, crashed, delivered, fit, nr, cls,
                rdrs, lbuf, rcall>>

\* Caller t enters WriteMsg(msg): length := uint32(len(msg)).
ConcWriteCall(t, msg) ==
    /\ nw < MaxMsgs
    /\ wcall.th[t].pc = "idle"
    /\ wcall' = [th |-> [wcall.th EXCEPT ![t] = [pc |-> "len", msg |-> msg]],
                 overlapped |-> \/ wcall.overlapped
                                \/ \E u \in Callers \ {t} :
                                      wcall.th[u].pc # "idle"]
    /\ nw' = nw + 1
    /\ UNCHANGED <<wire, broken, ret, written>>
    /\ UNCHANGED readerSide

\* WriteMsg going on to the payload without writing the length.
ConcWriteLenNone(t, o) ==
    /\ wcall.th[t].pc = "len"
    /\ o.err = "nil"
    /\ wcall' = [wcall EXCEPT !.th[t].pc = "payload"]
    /\ UNCHANGED <<wire, broken, ret, written, nw>>
    /\ UNCHANGED readerSide

\* WriteMsg: binary.Write(s.W, NBO, &length), returning its error if any.
ConcWriteLen(t, o) ==
    /\ wcall.th[t].pc = "len"
    /\ \E msg \in {wcall.th[t].msg} :
        /\ wire' = StreamWrite(wire, PutUint32(Uint32(Len(msg))), o)
        /\ broken' = (broken \/ o.err # "nil")
        /\ IF o.err # "nil"
           THEN /\ wcall' = [wcall EXCEPT !.th[t].pc = "idle"]
                /\ ret' = [NoRet EXCEPT !.op = "WriteMsg", !.err = o.err,
                                        !.msg = msg, !.calls = <<o>>]
           ELSE /\ wcall' = [wcall EXCEPT !.th[t].pc = "payload"]
                /\ ret' = ret
    /\ UNCHANGED <<written, nw>>
    /\ UNCHANGED readerSide

\* WriteMsg: _, err = s.W.Write(msg); return err
ConcWritePayload(t, o) ==
    /\ wcall.th[t].pc = "payload"
    /\ \E msg \in {wcall.th[t].msg} :
        /\ wire' = StreamWrite(wire, msg, o)
        /\ broken' = (broken \/ o.err # "nil")
        /\ ret' = [NoRet EXCEPT !.op = "WriteMsg", !.err = o.err,
                                !.msg = msg,
                                !.calls = <<[n |-> lengthSize,
                                             err |-> "nil"], o>>]
        /\ written' = IF o.err = "nil" THEN Append(written, msg)
                      ELSE written
    /\ wcall' = [wcall EXCEPT !.th[t].pc = "idle"]
    /\ UNCHANGED nw
    /\ UNCHANGED readerSide

NextConcWrite ==
    \/ \E t \in Callers : \E msg \in ConcWritePayloads : ConcWriteCall(t, msg)
    \/ \E t \in Callers : \E o \in WriteOutcomes(broken, lengthSize) :
          ConcWriteLen(t, o)
    \/ \E t \in Callers :
          \E o \in WriteOutcomes(broken, Len(wcall.th[t].msg)) :
             ConcWritePayload(t, o)

SpecConcWrite == InitConcWrite /\ [][NextConcWrite]_vars

\* ------------------------------- claims: concurrent calls on one Writer

\* The payloads a Reader's successive calls return from a stream holding w,
\* up to its first error.
RECURSIVE ReadAll(_)
ReadAll(w) ==
    LET l == nextMsgLen(-1, w) IN
    IF l.err # "nil" THEN <<>>
    ELSE LET r == ReadFull(l.wire, l.length) IN
         IF r.err # "nil" THEN <<>>
         ELSE <<r.data>> \o ReadAll(r.rest)

WritersIdle ==
    /\ DOMAIN wcall.th = Callers
    /\ \A t \in Callers : wcall.th[t].pc = "idle"

\* Both length prefixes precede both payloads.
Interleaved(m1, m2) ==
    wire = PutUint32(Uint32(Len(m1))) \o PutUint32(Uint32(Len(m2))) \o m1 \o m2

\* C18: WriteMsg calls that do not overlap leave a stream from which a
\* Reader recovers the written payloads in order; two overlapping calls can
\* leave len1, len2, payload1, payload2, and then (payload1 not being empty)
\* a Reader recovers the two payloads in neither order.
WritesNotAtomic ==
    (WritersIdle /\ ~broken) =>
        /\ ~wcall.overlapped => ReadAll(wire) = written
        /\ \A i \in {1, 2} :
             (/\ nw = 2 /\ Len(written) = 2
              /\ written[i] # <<>>
              /\ Interleaved(written[i], written[3 - i])) =>
                /\ ReadAll(wire) # written
                /\ ReadAll(wire) # <<written[2], written[1]>>

\* Two calls overlapped, both returned nil, the stream holds both prefixes
\* and then both payloads, and a Reader does not recover the first payload.
WritesNotAtomicWitness ==
    /\ WritersIdle /\ wcall.overlapped /\ ~broken
    /\ nw = 2 /\ Len(written) = 2
    /\ written[1] = Pattern(1, 0) /\ written[2] = Pattern(MaxLength, 0)
    /\ Interleaved(written[1], written[2])
    /\ ReadAll(wire) # written
    /\ written[1] \notin Range(ReadAll(wire))

====
